---- MODULE Spec2Model ----
(***************************************************************************)
(* dkb2homebank: conversion of DKB CSV exports to the Homebank CSV layout. *)
(*                                                                         *)
(* Text is a sequence of characters, a character is a string token: an     *)
(* ASCII character is the one-character string, a byte above 0x7F is       *)
(* "xNN", and a character decoded from a multi-byte UTF-8 sequence is the   *)
(* token the decoder below builds.  A file on disk is a sequence of lines  *)
(* of bytes (line terminators left out).                                   *)
(***************************************************************************)
EXTENDS Integers, Sequences, FiniteSets, TLC

VARIABLES
    pc,          \* position of main(): which statement runs next
    file,        \* the input file on disk: a sequence of lines of bytes
    sniffed,     \* what csv.Sniffer().sniff() yields for this file
    outArg,      \* args.output_file (None when -o is not given)
    fs,          \* output paths -> content (Absent, or the records written)
    handles,     \* the file handles that are open
    header,      \* detect_csv_format: the decoded first line
    csv_format,  \* main: the detected CsvFileTypes value
    output,      \* main: the output path chosen
    reader,      \* the lines the csv.DictReader has not read yet
    status,      \* the process exit status (NoStatus while running)
    err,         \* the exception that ended the run ("" when none)
    stderr,      \* whether main printed its message to sys.stderr
    cs_in,       \* strip_currency: the argument
    cs_out,      \* strip_currency: the results of one and of two applications
    fl_in,       \* find_transaction_lines: the lines of the file
    fl_out       \* find_transaction_lines: the result

vars == <<pc, file, sniffed, outArg, fs, handles, header, csv_format, output,
          reader, status, err, stderr, cs_in, cs_out, fl_in, fl_out>>

mainVars == <<pc, file, sniffed, outArg, fs, handles, header, csv_format,
              output, reader, status, err, stderr>>

(***************************************************************************)
(* Bounds of the model.                                                    *)
(***************************************************************************)
MaxPre == 1        \* preamble lines between the first line and the header
MaxData == 2       \* lines after the header
MaxAmountLen == 3  \* length of the amount strings given to strip_currency
MaxLines == 3      \* lines given to find_transaction_lines on its own

(***************************************************************************)
(* Text helpers: str.startswith, the "in" operator, str.replace(x, ""),    *)
(* str.strip().                                                            *)
(***************************************************************************)
SeqsUpTo(S, n) == UNION {[1..k -> S] : k \in 0..n}

StartsWith(s, p) == Len(s) >= Len(p) /\ SubSeq(s, 1, Len(p)) = p

Contains(s, sub) ==
    \E i \in 1..(Len(s) - Len(sub) + 1) : SubSeq(s, i, i + Len(sub) - 1) = sub

RemoveChar(s, c) == SelectSeq(s, LAMBDA x : x # c)

Whitespace == {" ", "\t", "\n", "\r", "xA0"}

RECURSIVE LStrip(_)
LStrip(s) ==
    IF s # <<>> /\ Head(s) \in Whitespace THEN LStrip(Tail(s)) ELSE s

RECURSIVE RStrip(_)
RStrip(s) ==
    IF s # <<>> /\ s[Len(s)] \in Whitespace
    THEN RStrip(SubSeq(s, 1, Len(s) - 1)) ELSE s

Strip(s) == RStrip(LStrip(s))

(***************************************************************************)
(* Characters and literals of the source.                                  *)
(***************************************************************************)
Q == "\""
Euro == "xE2x82xAC"                     \* U+20AC as the UTF-8 decoder builds it
EuroBytes == <<"xE2", "x82", "xAC">>    \* its UTF-8 encoding
BOM == <<"xEF", "xBB", "xBF">>          \* the UTF-8 byte-order mark
None == <<"<None>">>                    \* Python's None where text is expected

SigOldVisa == <<Q, "K", "r", "e", "d", "i", "t", "k", "a", "r", "t", "e", ":", Q>>
SigCash == <<Q, "K", "o", "n", "t", "o", "n", "u", "m", "m", "e", "r", ":", Q>>
SigGiro == <<Q, "G", "i", "r", "o", "k", "o", "n", "t", "o", Q>>
SigNewVisa == <<Q, "K", "a", "r", "t", "e", Q>>
Betrag == <<"B", "e", "t", "r", "a", "g">>
Wertstellung == <<"W", "e", "r", "t", "s", "t", "e", "l", "l", "u", "n", "g">>

(***************************************************************************)
(* open(file_path, 'r', encoding=...): the codecs.  TextIOWrapper decodes  *)
(* the file in chunks of 8192 bytes, so the first read of a file shorter   *)
(* than a chunk decodes all of it, and raises UnicodeDecodeError if any    *)
(* byte of it is malformed.                                                *)
(***************************************************************************)
Cont == {"x82", "xAC", "xA4", "xBB", "xBF", "xA0"}   \* 0x80..0xBF
Lead2 == {"xC2", "xC3"}                               \* 0xC2..0xDF
Lead3 == {"xE2", "xE4", "xEF"}                        \* 0xE1..0xEF
HighBytes == Cont \cup Lead2 \cup Lead3

Utf8Char(bs) ==
    IF bs = <<"xC3", "xA4">> THEN "xE4"          \* U+00E4
    ELSE IF bs = <<"xC2", "xA0">> THEN "xA0"     \* U+00A0
    ELSE IF Len(bs) = 2 THEN bs[1] \o bs[2]
    ELSE bs[1] \o bs[2] \o bs[3]

\* The decoder on one line of bytes: ok is FALSE when a byte is malformed,
\* text is the characters.  A lead byte is followed by its continuation
\* bytes and a continuation byte follows its lead byte.
Utf8WellFormedAt(bs, i) ==
    LET Is(j, S) == j >= 1 /\ j <= Len(bs) /\ bs[j] \in S
    IN  IF bs[i] \in Lead2 THEN Is(i + 1, Cont)
        ELSE IF bs[i] \in Lead3 THEN Is(i + 1, Cont) /\ Is(i + 2, Cont)
        ELSE IF bs[i] \in Cont
        THEN Is(i - 1, Lead2 \cup Lead3) \/ (Is(i - 1, Cont) /\ Is(i - 2, Lead3))
        ELSE TRUE

Utf8Line(bs) ==
    LET chars == [i \in 1..Len(bs) |->
                    IF bs[i] \in Lead2 /\ i + 1 <= Len(bs) THEN Utf8Char(SubSeq(bs, i, i + 1))
                    ELSE IF bs[i] \in Lead3 /\ i + 2 <= Len(bs) THEN Utf8Char(SubSeq(bs, i, i + 2))
                    ELSE IF bs[i] \in HighBytes THEN ""
                    ELSE bs[i]]
    IN  [ok |-> \A i \in 1..Len(bs) : Utf8WellFormedAt(bs, i),
         text |-> SelectSeq(chars, LAMBDA c : c # "")]

\* utf-8-sig drops one byte-order mark at the start of the file.
DropBOM(ls) ==
    IF ls # <<>> /\ StartsWith(ls[1], BOM)
    THEN <<SubSeq(ls[1], 4, Len(ls[1]))>> \o Tail(ls)
    ELSE ls

\* The lines of the file under the encoding; ok is FALSE on UnicodeDecodeError.
Decode(ls, encoding) ==
    IF encoding = "iso-8859-1" THEN [ok |-> TRUE, lines |-> ls]
    ELSE LET bs == DropBOM(ls)
         IN  IF \E i \in 1..Len(bs) : ~Utf8Line(bs[i]).ok
             THEN [ok |-> FALSE, lines |-> <<>>]
             ELSE [ok |-> TRUE, lines |-> [i \in 1..Len(bs) |-> Utf8Line(bs[i]).text]]

\* file.readline(): the first line, "" (here <<>>) at end of file.
ReadLine(ls) == IF ls = <<>> THEN <<>> ELSE ls[1]

(***************************************************************************)
(* detect_csv_format: the cascade over the decoded first line.             *)
(***************************************************************************)
ClassifyHeader(h) ==
    IF StartsWith(h, SigOldVisa) THEN "OLD_VISA"
    ELSE IF StartsWith(h, SigCash) THEN "CASH"
    ELSE IF StartsWith(h, SigGiro) THEN "GIRO"
    ELSE IF StartsWith(h, SigNewVisa) THEN "NEW_VISA"
    ELSE "UNKNOWN"

(***************************************************************************)
(* find_transaction_lines: the lines after the first line that contains    *)
(* both markers; ok is FALSE when it raises ValueError.                    *)
(***************************************************************************)
IsHeaderLine(line) == Contains(line, Betrag) /\ Contains(line, Wertstellung)

\* FindFrom with the slice taken from the header line on
RECURSIVE FindFrom_mut(_, _)
FindFrom_mut(lines, i) ==
    IF i > Len(lines) THEN [ok |-> FALSE, lines |-> <<>>]
    ELSE IF IsHeaderLine(lines[i])
    THEN [ok |-> TRUE, lines |-> SubSeq(lines, i, Len(lines))]
    ELSE FindFrom_mut(lines, i + 1)

RECURSIVE FindFrom(_, _)
FindFrom(lines, i) ==
    IF i > Len(lines) THEN [ok |-> FALSE, lines |-> <<>>]
    ELSE IF IsHeaderLine(lines[i])
    THEN [ok |-> TRUE, lines |-> SubSeq(lines, i + 1, Len(lines))]
    ELSE FindFrom(lines, i + 1)

\* find_transaction_lines that returns every line when it finds no header
find_transaction_lines_mut(lines) ==
    IF FindFrom(lines, 1).ok THEN FindFrom(lines, 1)
    ELSE [ok |-> TRUE, lines |-> lines]

find_transaction_lines(lines) == FindFrom(lines, 1)

(***************************************************************************)
(* csv.reader over a list of lines, under the sniffed dialect (delimiter,  *)
(* quotechar, doublequote; no escapechar, not strict).  The parser state   *)
(* is [st, fields, cur]: the state of the automaton, the fields saved and  *)
(* the characters of the field being read.                                 *)
(***************************************************************************)
ParseStep(p, c, d) ==
    IF p.st \in {"START_RECORD", "START_FIELD"}
    THEN IF c = d.quotechar THEN [p EXCEPT !.st = "IN_QUOTED_FIELD"]
         ELSE IF c = d.delimiter
         THEN [p EXCEPT !.st = "START_FIELD", !.fields = Append(@, p.cur), !.cur = <<>>]
         ELSE [p EXCEPT !.st = "IN_FIELD", !.cur = Append(@, c)]
    ELSE IF p.st = "IN_FIELD"
    THEN IF c = d.delimiter
         THEN [p EXCEPT !.st = "START_FIELD", !.fields = Append(@, p.cur), !.cur = <<>>]
         ELSE [p EXCEPT !.cur = Append(@, c)]
    ELSE IF p.st = "IN_QUOTED_FIELD"
    THEN IF c = d.quotechar
         THEN [p EXCEPT !.st = IF d.doublequote THEN "QUOTE_IN_QUOTED_FIELD"
                                ELSE "IN_FIELD"]
         ELSE [p EXCEPT !.cur = Append(@, c)]
    ELSE \* QUOTE_IN_QUOTED_FIELD
         IF c = d.quotechar
         THEN [p EXCEPT !.st = "IN_QUOTED_FIELD", !.cur = Append(@, c)]
         ELSE IF c = d.delimiter
         THEN [p EXCEPT !.st = "START_FIELD", !.fields = Append(@, p.cur), !.cur = <<>>]
         ELSE [p EXCEPT !.st = "IN_FIELD", !.cur = Append(@, c)]

ParserStates ==
    {"START_RECORD", "START_FIELD", "IN_FIELD", "IN_QUOTED_FIELD", "QUOTE_IN_QUOTED_FIELD"}

\* The automaton run over the characters of s, the two halves in turn.  (The
\* test of p.st has TLC evaluate p before it goes on.)
RECURSIVE ParseChars(_, _, _)
ParseChars(p, s, d) ==
    IF p.st \notin ParserStates \/ s = <<>> THEN p
    ELSE IF Len(s) = 1 THEN ParseStep(p, s[1], d)
    ELSE ParseChars(ParseChars(p, SubSeq(s, 1, Len(s) \div 2), d),
                    SubSeq(s, Len(s) \div 2 + 1, Len(s)), d)

\* The end of a line: the line terminator, then the EOL the reader feeds.
ParseEOL(p) ==
    IF p.st = "START_RECORD" THEN p
    ELSE IF p.st = "IN_QUOTED_FIELD" THEN [p EXCEPT !.cur = Append(@, "\n")]
    ELSE [p EXCEPT !.st = "START_RECORD", !.fields = Append(@, p.cur), !.cur = <<>>]

\* Reader.__next__: stop is TRUE on StopIteration, else row is the list of
\* fields and rest the lines left.  A record ends with the line that
\* leaves the automaton in START_RECORD; input that ends inside a quoted
\* field yields the fields read so far.
RECURSIVE ReaderFeed(_, _, _)
ReaderFeed(p, lines, d) ==
    IF lines = <<>>
    THEN IF p.cur # <<>> \/ p.st = "IN_QUOTED_FIELD"
         THEN [stop |-> FALSE, row |-> Append(p.fields, p.cur), rest |-> <<>>]
         ELSE [stop |-> TRUE, row |-> <<>>, rest |-> <<>>]
    ELSE LET q == ParseEOL(ParseChars(p, Head(lines), d))
         IN  IF q.st = "START_RECORD"
             THEN [stop |-> FALSE, row |-> q.fields, rest |-> Tail(lines)]
             ELSE ReaderFeed(q, Tail(lines), d)

ReaderNext(lines, d) ==
    ReaderFeed([st |-> "START_RECORD", fields |-> <<>>, cur |-> <<>>], lines, d)

\* dict(zip(fieldnames, row)), the names without a field bound to None
\* (restval); the fields beyond the names go under the key None, which no
\* converter reads.
BindRow(field_names, row) ==
    [k \in {field_names[i] : i \in 1..Len(field_names)} |->
        LET i == CHOOSE j \in 1..Len(field_names) : field_names[j] = k
        IN  IF i <= Len(row) THEN row[i] ELSE None]

\* csv.DictReader.__next__: empty rows are skipped, the fields are bound to
\* the field names by position.
RECURSIVE DictReaderNext(_, _, _)
DictReaderNext(lines, field_names, d) ==
    LET r == ReaderNext(lines, d)
    IN  IF r.stop THEN [stop |-> TRUE, row |-> <<>>, rest |-> <<>>]
        ELSE IF r.row = <<>> THEN DictReaderNext(r.rest, field_names, d)
        ELSE [stop |-> FALSE, row |-> BindRow(field_names, r.row), rest |-> r.rest]

(***************************************************************************)
(* The field names of the four source layouts and of the target layout.    *)
(***************************************************************************)
cash_field_names ==
    <<"buchungstag", "wertstellung", "buchungstext", "beguenstigter",
      "verwendungszweck", "kontonummer", "blz", "betrag", "glaeubigerID",
      "mandatsreferenz", "kundenreferenz">>

old_visa_field_names ==
    <<"abgerechnet", "wertstellung", "belegdatum", "beschreibung", "betrag",
      "urspruenglicherBetrag">>

new_visa_field_names ==
    <<"belegdatum", "wertstellung", "status", "beschreibung", "umsatztyp",
      "betrag", "fremdwaehrungsbetrag">>

giro_field_names ==
    <<"buchungsdatum", "wertstellung", "status", "zahlungspflichtige*r",
      "zahlungsempfaenger*in", "verwendungszweck", "umsatztyp", "IBAN",
      "betrag", "glaeubiger-id", "mandatsreferenz", "kundenreferenz">>

homebank_field_names ==
    <<"date", "paymode", "info", "payee", "memo", "amount", "category", "tags">>

(***************************************************************************)
(* convert_date, convert_short_date: datetime.strptime with "%d.%m.%Y" or  *)
(* "%d.%m.%y", then strftime('%d-%m-%Y').  ok is FALSE when strptime       *)
(* raises ValueError.                                                      *)
(***************************************************************************)
Digits == {"0", "1", "2", "3", "4", "5", "6", "7", "8", "9"}
DigitSeq == <<"0", "1", "2", "3", "4", "5", "6", "7", "8", "9">>
DigitVal(c) == (CHOOSE i \in 1..10 : DigitSeq[i] = c) - 1

RECURSIVE NumVal(_)
NumVal(s) == IF s = <<>> THEN 0 ELSE 10 * NumVal(SubSeq(s, 1, Len(s) - 1)) + DigitVal(s[Len(s)])

RECURSIVE NumStr(_)
NumStr(n) == IF n < 10 THEN <<DigitSeq[n + 1]>> ELSE NumStr(n \div 10) \o <<DigitSeq[(n % 10) + 1]>>

Pad2(n) == IF n < 10 THEN <<"0">> \o NumStr(n) ELSE NumStr(n)

\* %d: 3[0-1] | [1-2]\d | 0[1-9] | [1-9] | " "[1-9]
MatchesDay(t) ==
    \/ Len(t) = 2 /\ t[1] = "3" /\ t[2] \in {"0", "1"}
    \/ Len(t) = 2 /\ t[1] \in {"1", "2"} /\ t[2] \in Digits
    \/ Len(t) = 2 /\ t[1] \in {"0", " "} /\ t[2] \in Digits \ {"0"}
    \/ Len(t) = 1 /\ t[1] \in Digits \ {"0"}

\* %m: 1[0-2] | 0[1-9] | [1-9]
MatchesMonth(t) ==
    \/ Len(t) = 2 /\ t[1] = "1" /\ t[2] \in {"0", "1", "2"}
    \/ Len(t) = 2 /\ t[1] = "0" /\ t[2] \in Digits \ {"0"}
    \/ Len(t) = 1 /\ t[1] \in Digits \ {"0"}

\* %Y: \d\d\d\d, %y: \d\d; characters after the year are "unconverted data".
MatchesYear(t, n) == Len(t) = n /\ \A i \in 1..n : t[i] \in Digits

IsLeap(y) == (y % 4 = 0 /\ y % 100 # 0) \/ y % 400 = 0

DaysInMonth(y, m) ==
    IF m = 2 THEN (IF IsLeap(y) THEN 29 ELSE 28)
    ELSE IF m \in {4, 6, 9, 11} THEN 30 ELSE 31

\* The position of the first "." of s at or after i, 0 when there is none.
RECURSIVE FindDot(_, _)
FindDot(s, i) ==
    IF i > Len(s) THEN 0 ELSE IF s[i] = "." THEN i ELSE FindDot(s, i + 1)

\* %y: 69..99 are 1969..1999, 00..68 are 2000..2068.
Century(yy) == IF yy >= 69 THEN 1900 + yy ELSE 2000 + yy

Strptime(s, ydigits) ==
    LET p1 == FindDot(s, 1)
        p2 == IF p1 = 0 THEN 0 ELSE FindDot(s, p1 + 1)
        ds == SubSeq(s, 1, p1 - 1)
        ms == SubSeq(s, p1 + 1, p2 - 1)
        ys == SubSeq(s, p2 + 1, Len(s))
    IN  IF p1 = 0 \/ p2 = 0 THEN [ok |-> FALSE]
        ELSE IF ~(MatchesDay(ds) /\ MatchesMonth(ms) /\ MatchesYear(ys, ydigits))
        THEN [ok |-> FALSE]
        ELSE LET d == NumVal(LStrip(ds))
                 m == NumVal(ms)
                 y == IF ydigits = 2 THEN Century(NumVal(ys)) ELSE NumVal(ys)
             IN  IF y < 1 \/ d > DaysInMonth(y, m) THEN [ok |-> FALSE]
                 ELSE [ok |-> TRUE, d |-> d, m |-> m, y |-> y]

\* '%d-%m-%Y'; glibc's %Y does not pad the year.
Strftime(t) == Pad2(t.d) \o <<"-">> \o Pad2(t.m) \o <<"-">> \o NumStr(t.y)

\* err is "" or the exception raised (TypeError for None).
convert_date(date_string) ==
    IF date_string = None THEN [err |-> "TypeError", text |-> <<>>]
    ELSE LET t == Strptime(date_string, 4)
         IN  IF t.ok THEN [err |-> "", text |-> Strftime(t)]
             ELSE [err |-> "ValueError", text |-> <<>>]

convert_short_date(date_string) ==
    IF date_string = None THEN [err |-> "TypeError", text |-> <<>>]
    ELSE LET t == Strptime(date_string, 2)
         IN  IF t.ok THEN [err |-> "", text |-> Strftime(t)]
             ELSE [err |-> "ValueError", text |-> <<>>]

(***************************************************************************)
(* strip_currency: currency_string.replace(Euro, "").strip().              *)
(***************************************************************************)
\* strip_currency that strips before it replaces
strip_currency_mut(currency_string) == RemoveChar(Strip(currency_string), Euro)

strip_currency(currency_string) == Strip(RemoveChar(currency_string, Euro))

(***************************************************************************)
(* The four converters: the dict each passes to writer.writerow for one    *)
(* row of the reader, or the exception the expressions of the dict raise   *)
(* (they are evaluated in the order written).  paymode is the text that    *)
(* the writer makes of the integer.                                        *)
(***************************************************************************)
PyStr(v) == IF v = None THEN <<"N", "o", "n", "e">> ELSE v

cash_row(row) ==
    LET date == convert_date(row["buchungstag"])
    IN  IF date.err # "" THEN [err |-> date.err]
        ELSE [err |-> "",
              rec |-> [date |-> date.text, paymode |-> <<"8">>, info |-> None,
                       payee |-> row["beguenstigter"],
                       memo |-> row["verwendungszweck"],
                       amount |-> row["betrag"],
                       category |-> None, tags |-> None]]

old_visa_row(row) ==
    LET date == convert_date(row["wertstellung"])
    IN  IF date.err # "" THEN [err |-> date.err]
        ELSE [err |-> "",
              rec |-> [date |-> date.text, paymode |-> <<"1">>, info |-> None,
                       payee |-> None,
                       memo |-> row["beschreibung"],
                       amount |-> row["betrag"],
                       category |-> None, tags |-> None]]

new_visa_row(row) ==
    LET date == convert_short_date(row["wertstellung"])
    IN  IF date.err # "" THEN [err |-> date.err]
        ELSE IF row["betrag"] = None THEN [err |-> "AttributeError"]
        ELSE [err |-> "",
              rec |-> [date |-> date.text, paymode |-> <<"1">>, info |-> None,
                       payee |-> None,
                       memo |-> row["beschreibung"],
                       amount |-> strip_currency(row["betrag"]),
                       category |-> None, tags |-> None]]

\* giro_row with the payer's name taken for the payee's
giro_row_mut(row) ==
    LET date == convert_short_date(row["buchungsdatum"])
    IN  IF date.err # "" THEN [err |-> date.err]
        ELSE IF row["betrag"] = None THEN [err |-> "AttributeError"]
        ELSE [err |-> "",
              rec |-> [date |-> date.text, paymode |-> <<"8">>, info |-> None,
                       payee |-> PyStr(row["zahlungspflichtige*r"]) \o <<" ">>
                                 \o PyStr(row["IBAN"]),
                       memo |-> row["verwendungszweck"],
                       amount |-> strip_currency(row["betrag"]),
                       category |-> None, tags |-> None]]

giro_row(row) ==
    LET date == convert_short_date(row["buchungsdatum"])
    IN  IF date.err # "" THEN [err |-> date.err]
        ELSE IF row["betrag"] = None THEN [err |-> "AttributeError"]
        ELSE [err |-> "",
              rec |-> [date |-> date.text, paymode |-> <<"8">>, info |-> None,
                       payee |-> PyStr(row["zahlungsempfaenger*in"]) \o <<" ">>
                                 \o PyStr(row["IBAN"]),
                       memo |-> row["verwendungszweck"],
                       amount |-> strip_currency(row["betrag"]),
                       category |-> None, tags |-> None]]

\* csv.DictWriter.writerow: the values in the order of the field names,
\* None written as the empty field.  (The quoting of the written line is
\* the writer's and is left out: the file is kept as its records.)
writerow(rec) ==
    [i \in 1..Len(homebank_field_names) |->
        IF rec[homebank_field_names[i]] = None THEN <<>>
        ELSE rec[homebank_field_names[i]]]

\* What main() and the converters fix for each format.
FieldNames(fmt) ==
    IF fmt = "CASH" THEN cash_field_names
    ELSE IF fmt = "OLD_VISA" THEN old_visa_field_names
    ELSE IF fmt = "NEW_VISA" THEN new_visa_field_names
    ELSE giro_field_names

Encoding(fmt) == IF fmt \in {"CASH", "OLD_VISA"} THEN "iso-8859-1" ELSE "utf-8-sig"

ConvertRow(fmt, row) ==
    IF fmt = "CASH" THEN cash_row(row)
    ELSE IF fmt = "OLD_VISA" THEN old_visa_row(row)
    ELSE IF fmt = "NEW_VISA" THEN new_visa_row(row)
    ELSE giro_row(row)

DefaultOutput(fmt) ==
    IF fmt = "CASH" THEN "cashHomebank.csv"
    ELSE IF fmt = "GIRO" THEN "giroHomebank.csv"
    ELSE "visaHomebank.csv"

(***************************************************************************)
(* The inputs: files built from a first line, preamble lines, a header     *)
(* line and data lines.                                                    *)
(***************************************************************************)
RECURSIVE Join(_, _)
Join(fields, sep) ==
    IF fields = <<>> THEN <<>>
    ELSE IF Len(fields) = 1 THEN fields[1]
    ELSE fields[1] \o <<sep>> \o Join(Tail(fields), sep)

Formats == {"OLD_VISA", "CASH", "GIRO", "NEW_VISA"}

\* First lines: the four signatures, the GIRO one after a byte-order mark, and
\* a line of an unknown export.
FirstLineOf ==
    [OLD_VISA |-> SigOldVisa \o <<";", "1">>,
     CASH |-> SigCash \o <<";", "1">>,
     GIRO |-> BOM \o SigGiro \o <<";", "1">>,
     NEW_VISA |-> SigNewVisa \o <<";", "1">>,
     UNKNOWN |-> <<Q, "D", "e", "p", "o", "t", ":", Q, ",", Q, "1", Q>>]

\* A preamble line that holds one of the two markers.
PreLines == {<<Q>> \o Betrag \o <<Q, ";", "1">>}

\* The header line as the old portal wrote it (ISO-8859-1: a byte that is
\* malformed UTF-8) and as the new portal writes it (UTF-8).
HeaderLatin1 == <<Q>> \o Wertstellung \o <<Q, ";", Q, "G", "l", "xE4", "u", Q, ";", Q>> \o Betrag \o <<Q>>
HeaderUtf8 == <<Q>> \o Wertstellung \o <<Q, ";", Q>> \o Betrag \o <<" ", "(">> \o EuroBytes \o <<")", Q>>
HeaderLines == {HeaderLatin1, HeaderUtf8}

DLong == <<"1", ".", "3", ".", "2", "0", "2", "3">>    \* dd.mm.yyyy
DLong2 == <<"2", "9", ".", "0", "2", ".", "2", "0", "2", "4">>
DShort == <<"1", ".", "3", ".", "2", "3">>             \* dd.mm.yy
DShort2 == <<"2", "9", ".", "0", "2", ".", "2", "4">>

NumFields(fmt) == Len(FieldNames(fmt))
AmountIdx(fmt) == CHOOSE i \in 1..NumFields(fmt) : FieldNames(fmt)[i] = "betrag"
LongDates(fmt) == fmt \in {"CASH", "OLD_VISA"}

\* A data line: two dates, the amount (quoted), and a distinct text in every
\* other field, tagged with t.
DataLine(fmt, d1, d2, amt, t) ==
    Join([i \in 1..NumFields(fmt) |->
            IF i = 1 THEN d1 ELSE IF i = 2 THEN d2
            ELSE IF i = AmountIdx(fmt) THEN <<Q>> \o amt \o <<Q>>
            ELSE <<t>> \o NumStr(i)], ";")

GoodLine1(fmt) ==
    IF LongDates(fmt)
    THEN DataLine(fmt, DLong, DLong2, <<"-", "4", ",", "5", " ">> \o EuroBytes, "a")
    ELSE DataLine(fmt, DShort, DShort2, <<"-", "4", ",", "5", " ">> \o EuroBytes, "a")

\* The line ends with the delimiter, as the lines of the bank's exports do.
GoodLine2(fmt) ==
    IF LongDates(fmt)
    THEN DataLine(fmt, DLong2, DLong, <<"7">>, "b") \o <<";">>
    ELSE DataLine(fmt, DShort2, DShort, <<"7">>, "b") \o <<";">>

\* Its dates are those of the other family of formats.
BadDateLine(fmt) ==
    IF LongDates(fmt)
    THEN DataLine(fmt, DShort, DShort2, <<"3">>, "c")
    ELSE DataLine(fmt, DLong, DLong2, <<"3">>, "c")

\* A short line that ends inside a quoted field.
OpenQuoteLine(fmt) ==
    IF LongDates(fmt) THEN DLong \o <<";">> \o DLong2 \o <<";", Q, "x">>
    ELSE DShort \o <<";">> \o DShort2 \o <<";", Q, "x">>

DataLines(fmt) ==
    {GoodLine1(fmt), GoodLine2(fmt), BadDateLine(fmt), OpenQuoteLine(fmt), <<>>}

\* The data lines of a file of format f (for an unknown export, lines of
\* one kind: no converter reads them).
DataLinesOf(f) == IF f = "UNKNOWN" THEN {GoodLine1("CASH")} ELSE DataLines(f)

FilesOf(f) ==
    {<<FirstLineOf[f]>> \o pre \o hdr \o data :
        pre \in SeqsUpTo(PreLines, MaxPre),
        hdr \in SeqsUpTo(HeaderLines, 1),
        data \in SeqsUpTo(DataLinesOf(f), MaxData)}

Files == UNION {FilesOf(f) : f \in Formats \cup {"UNKNOWN"}}

\* csv.Sniffer().sniff(): the dialect guessed from the first 1024
\* characters, or csv.Error ("Could not determine delimiter").  The guess is
\* the library's heuristic: any of these outcomes is taken to be possible.
Dialects ==
    {[ok |-> TRUE, delimiter |-> ";", quotechar |-> Q, doublequote |-> FALSE],
     [ok |-> TRUE, delimiter |-> ",", quotechar |-> Q, doublequote |-> TRUE]}
NotSniffed == [ok |-> FALSE]

NoArg == ""       \* -o not given (None) or empty: both are false in "or"
OutArgs == {NoArg, "out.csv"}
Paths == {"visaHomebank.csv", "cashHomebank.csv", "giroHomebank.csv", "out.csv"}
Absent == [exists |-> FALSE, records |-> <<>>]
OldContent == [exists |-> TRUE, records |-> << << <<"o", "l", "d">> >> >>]
NoStatus == -1

(***************************************************************************)
(* main(): the initial state and the steps.                                *)
(***************************************************************************)
\* The default output files are there from an earlier run, out.csv is not.
InitFs == [p \in Paths |-> IF p = "out.csv" THEN Absent ELSE OldContent]

StripIdle == cs_in = <<>> /\ cs_out = <<>>
FindIdle == fl_in = <<>> /\ fl_out = [called |-> FALSE, ok |-> FALSE, lines |-> <<>>]

Init ==
    /\ pc = "detect"
    /\ file \in Files
    /\ sniffed = NotSniffed
    /\ outArg \in OutArgs
    /\ fs = InitFs
    /\ handles = {}
    /\ header = <<>>
    /\ csv_format = "UNKNOWN"
    /\ output = ""
    /\ reader = <<>>
    /\ status = NoStatus
    /\ err = ""
    /\ stderr = FALSE
    /\ StripIdle
    /\ FindIdle

\* _read_header_line(file_path, "utf-8-sig"): open
OpenHeaderUtf8 ==
    /\ pc = "detect"
    /\ handles' = handles \cup {"in"}
    /\ pc' = "readline_utf8"
    /\ UNCHANGED <<file, sniffed, outArg, fs, header, csv_format, output, reader,
                   status, err, stderr, cs_in, cs_out, fl_in, fl_out>>

\* ... readline, seek(0), and the end of the with block; UnicodeDecodeError is
\* caught by detect_csv_format.
ReadHeaderUtf8 ==
    /\ pc = "readline_utf8"
    /\ LET r == Decode(file, "utf-8-sig")
       IN  IF r.ok THEN header' = ReadLine(r.lines) /\ pc' = "classify"
           ELSE header' = header /\ pc' = "detect_fallback"
    /\ handles' = handles \ {"in"}
    /\ UNCHANGED <<file, sniffed, outArg, fs, csv_format, output, reader,
                   status, err, stderr, cs_in, cs_out, fl_in, fl_out>>

\* _read_header_line(file_path, "iso-8859-1"): open
OpenHeaderLatin1 ==
    /\ pc = "detect_fallback"
    /\ handles' = handles \cup {"in"}
    /\ pc' = "readline_latin1"
    /\ UNCHANGED <<file, sniffed, outArg, fs, header, csv_format, output, reader,
                   status, err, stderr, cs_in, cs_out, fl_in, fl_out>>

ReadHeaderLatin1 ==
    /\ pc = "readline_latin1"
    /\ header' = ReadLine(Decode(file, "iso-8859-1").lines)
    /\ pc' = "classify"
    /\ handles' = handles \ {"in"}
    /\ UNCHANGED <<file, sniffed, outArg, fs, csv_format, output, reader,
                   status, err, stderr, cs_in, cs_out, fl_in, fl_out>>

\* detect_csv_format: the chain of startswith tests
Classify ==
    /\ pc = "classify"
    /\ csv_format' = ClassifyHeader(header)
    /\ pc' = "main"
    /\ UNCHANGED <<file, sniffed, outArg, fs, handles, header, output, reader,
                   status, err, stderr, cs_in, cs_out, fl_in, fl_out>>

\* MainConvert with a final else in place of the test of the last format
MainConvert_mut ==
    /\ pc = "main"
    /\ output' = IF outArg # NoArg THEN outArg ELSE DefaultOutput(csv_format)
    /\ pc' = "open_csv"
    /\ UNCHANGED <<file, sniffed, outArg, fs, handles, header, csv_format, reader,
                   status, err, stderr, cs_in, cs_out, fl_in, fl_out>>

\* main: the branch of a known format, up to the call of its converter
MainConvert ==
    /\ pc = "main"
    /\ csv_format # "UNKNOWN"
    /\ output' = IF outArg # NoArg THEN outArg ELSE DefaultOutput(csv_format)
    /\ pc' = "open_csv"
    /\ UNCHANGED <<file, sniffed, outArg, fs, handles, header, csv_format, reader,
                   status, err, stderr, cs_in, cs_out, fl_in, fl_out>>

\* main: the UNKNOWN branch prints to sys.stderr and main returns
MainUnknown ==
    /\ pc = "main"
    /\ csv_format = "UNKNOWN"
    /\ stderr' = TRUE
    /\ status' = 0
    /\ pc' = "exit"
    /\ UNCHANGED <<file, sniffed, outArg, fs, handles, header, csv_format, output,
                   reader, err, cs_in, cs_out, fl_in, fl_out>>

\* _open_csv: open
OpenCsv ==
    /\ pc = "open_csv"
    /\ handles' = handles \cup {"in"}
    /\ pc' = "sniff"
    /\ UNCHANGED <<file, sniffed, outArg, fs, header, csv_format, output, reader,
                   status, err, stderr, cs_in, cs_out, fl_in, fl_out>>

\* Raise out of a file opened without a with block
Raise_mut(handle, exception) ==
    /\ handles' = handles
    /\ err' = exception
    /\ status' = 1
    /\ pc' = "exit"

\* An exception leaves the with block (the handle is closed) and the process.
Raise(handle, exception) ==
    /\ handles' = handles \ {handle}
    /\ err' = exception
    /\ status' = 1
    /\ pc' = "exit"

\* _open_csv: file.read(1024) raises UnicodeDecodeError
CsvDecodeError ==
    /\ pc = "sniff"
    /\ ~Decode(file, Encoding(csv_format)).ok
    /\ Raise("in", "UnicodeDecodeError")
    /\ UNCHANGED <<file, sniffed, outArg, fs, header, csv_format, output, reader,
                   stderr, cs_in, cs_out, fl_in, fl_out>>

\* _open_csv: sniff raises csv.Error
CsvSniffError ==
    /\ pc = "sniff"
    /\ Decode(file, Encoding(csv_format)).ok
    /\ Raise("in", "csv.Error")
    /\ UNCHANGED <<file, sniffed, outArg, fs, header, csv_format, output, reader,
                   stderr, cs_in, cs_out, fl_in, fl_out>>

\* _open_csv: find_transaction_lines raises ValueError
CsvNoHeader ==
    /\ pc = "sniff"
    /\ Decode(file, Encoding(csv_format)).ok
    /\ sniffed' \in Dialects
    /\ ~find_transaction_lines(Decode(file, Encoding(csv_format)).lines).ok
    /\ Raise("in", "ValueError")
    /\ UNCHANGED <<file, outArg, fs, header, csv_format, output, reader,
                   stderr, cs_in, cs_out, fl_in, fl_out>>

\* _open_csv: the DictReader over the transaction lines is returned
CsvReader ==
    /\ pc = "sniff"
    /\ Decode(file, Encoding(csv_format)).ok
    /\ sniffed' \in Dialects
    /\ LET found == find_transaction_lines(Decode(file, Encoding(csv_format)).lines)
       IN  found.ok /\ reader' = found.lines
    /\ handles' = handles \ {"in"}
    /\ pc' = "open_out"
    /\ UNCHANGED <<file, outArg, fs, header, csv_format, output,
                   status, err, stderr, cs_in, cs_out, fl_in, fl_out>>

\* convert_*: open(output_file, 'w') creates or truncates the file
OpenOutput ==
    /\ pc = "open_out"
    /\ fs' = [fs EXCEPT ![output] = [exists |-> TRUE, records |-> <<>>]]
    /\ handles' = handles \cup {"out"}
    /\ pc' = "rows"
    /\ UNCHANGED <<file, sniffed, outArg, header, csv_format, output, reader,
                   status, err, stderr, cs_in, cs_out, fl_in, fl_out>>

NextRow == DictReaderNext(reader, FieldNames(csv_format), sniffed)

\* WriteRow that reads one line more than the row it writes
WriteRow_mut ==
    /\ pc = "rows"
    /\ ~NextRow.stop
    /\ LET r == ConvertRow(csv_format, NextRow.row)
       IN  /\ r.err = ""
           /\ fs' = [fs EXCEPT ![output].records = Append(@, writerow(r.rec))]
    /\ reader' = IF NextRow.rest = <<>> THEN <<>> ELSE Tail(NextRow.rest)
    /\ UNCHANGED <<pc, file, sniffed, outArg, handles, header, csv_format, output,
                   status, err, stderr, cs_in, cs_out, fl_in, fl_out>>

\* convert_*: one turn of the loop, the row is written
WriteRow ==
    /\ pc = "rows"
    /\ ~NextRow.stop
    /\ LET r == ConvertRow(csv_format, NextRow.row)
       IN  /\ r.err = ""
           /\ fs' = [fs EXCEPT ![output].records = Append(@, writerow(r.rec))]
    /\ reader' = NextRow.rest
    /\ UNCHANGED <<pc, file, sniffed, outArg, handles, header, csv_format, output,
                   status, err, stderr, cs_in, cs_out, fl_in, fl_out>>

\* RowError that catches the exception and goes on with the next row
RowError_mut ==
    /\ pc = "rows"
    /\ ~NextRow.stop
    /\ ConvertRow(csv_format, NextRow.row).err # ""
    /\ reader' = NextRow.rest
    /\ UNCHANGED <<pc, file, sniffed, outArg, fs, handles, header, csv_format,
                   output, status, err, stderr, cs_in, cs_out, fl_in, fl_out>>

\* convert_*: one turn of the loop, the conversion of the row raises
RowError ==
    /\ pc = "rows"
    /\ ~NextRow.stop
    /\ LET r == ConvertRow(csv_format, NextRow.row)
       IN  r.err # "" /\ Raise("out", r.err)
    /\ reader' = NextRow.rest
    /\ UNCHANGED <<file, sniffed, outArg, fs, header, csv_format, output,
                   stderr, cs_in, cs_out, fl_in, fl_out>>

\* convert_*: the reader is exhausted, the with block ends, main returns
Finish ==
    /\ pc = "rows"
    /\ NextRow.stop
    /\ reader' = <<>>
    /\ handles' = handles \ {"out"}
    /\ status' = 0
    /\ pc' = "exit"
    /\ UNCHANGED <<file, sniffed, outArg, fs, header, csv_format, output,
                   err, stderr, cs_in, cs_out, fl_in, fl_out>>

Next ==
    \/ OpenHeaderUtf8 \/ ReadHeaderUtf8 \/ OpenHeaderLatin1 \/ ReadHeaderLatin1
    \/ Classify \/ MainConvert \/ MainUnknown
    \/ OpenCsv \/ CsvDecodeError \/ CsvSniffError \/ CsvNoHeader \/ CsvReader
    \/ OpenOutput \/ WriteRow \/ RowError \/ Finish

Spec == Init /\ [][Next]_vars

(***************************************************************************)
(* strip_currency on its own: applied to an amount string, then to its     *)
(* own result.                                                             *)
(***************************************************************************)
AmountChars == {"1", ",", ".", "-", " ", "xA0", Euro}

MainIdle ==
    /\ pc = "idle" /\ file = <<>> /\ sniffed = NotSniffed /\ outArg = NoArg
    /\ fs = InitFs /\ handles = {} /\ header = <<>> /\ csv_format = "UNKNOWN"
    /\ output = "" /\ reader = <<>> /\ status = NoStatus /\ err = ""
    /\ stderr = FALSE

InitStrip ==
    /\ MainIdle
    /\ FindIdle
    /\ cs_in \in SeqsUpTo(AmountChars, MaxAmountLen)
    /\ cs_out = <<>>

StripOnce ==
    /\ pc = "idle"
    /\ cs_out = <<>>
    /\ cs_out' = <<strip_currency(cs_in)>>
    /\ UNCHANGED <<mainVars, cs_in, fl_in, fl_out>>

StripTwice ==
    /\ pc = "idle"
    /\ Len(cs_out) = 1
    /\ cs_out' = Append(cs_out, strip_currency(cs_out[1]))
    /\ UNCHANGED <<mainVars, cs_in, fl_in, fl_out>>

NextStrip == StripOnce \/ StripTwice

SpecStrip == InitStrip /\ [][NextStrip]_vars

(***************************************************************************)
(* find_transaction_lines on its own: applied to the lines of a file.      *)
(***************************************************************************)
LineBoth == Wertstellung \o <<";">> \o Betrag
LineBothReversed == <<Q>> \o Betrag \o <<" ", "(", "E", "U", "R", ")", Q, ";">> \o Wertstellung
LineBetrag == <<"x">> \o Betrag \o <<";", "W", "e", "r", "t">>
LineLower == <<"w", "e", "r", "t", "s", "t", "e", "l", "l", "u", "n", "g", ";", "b", "e", "t", "r", "a", "g">>
LineData == DLong \o <<";", "7">>
FindLines == {LineBoth, LineBothReversed, LineBetrag, LineLower, LineData}

InitFind ==
    /\ MainIdle
    /\ StripIdle
    /\ fl_in \in SeqsUpTo(FindLines, MaxLines)
    /\ fl_out = [called |-> FALSE, ok |-> FALSE, lines |-> <<>>]

FindTransactionLines ==
    /\ pc = "idle"
    /\ ~fl_out.called
    /\ fl_out' = [called |-> TRUE,
                  ok |-> find_transaction_lines(fl_in).ok,
                  lines |-> find_transaction_lines(fl_in).lines]
    /\ UNCHANGED <<mainVars, cs_in, cs_out, fl_in>>

NextFind == FindTransactionLines

SpecFind == InitFind /\ [][NextFind]_vars

(***************************************************************************)
(* What the properties speak of.                                           *)
(***************************************************************************)
Known == csv_format \in Formats
Classified == pc \in {"main", "open_csv", "sniff", "open_out", "rows", "exit"}

\* The output file has been opened by this run.
Opened == output # "" /\ fs[output] # InitFs[output]
Written == fs[output].records

\* The lines after the header line, as the converter of the format reads them.
ExtractedLines ==
    find_transaction_lines(Decode(file, Encoding(csv_format)).lines).lines

\* The non-empty rows the csv reader makes of the lines.
RECURSIVE SourceRows(_, _)
SourceRows(lines, d) ==
    LET r == ReaderNext(lines, d)
    IN  IF r.stop THEN <<>>
        ELSE IF r.row = <<>> THEN SourceRows(r.rest, d)
        ELSE <<r.row>> \o SourceRows(r.rest, d)

Field(row, i) == IF i <= Len(row) THEN row[i] ELSE <<>>
NoEuro(amount) == Strip(SelectSeq(amount, LAMBDA c : c # Euro))

\* The record each format's rule makes of a source row, by column number.
Projection(fmt, row) ==
    IF fmt = "CASH"
    THEN <<convert_date(Field(row, 1)).text, <<"8">>, <<>>, Field(row, 4),
           Field(row, 5), Field(row, 8), <<>>, <<>>>>
    ELSE IF fmt = "OLD_VISA"
    THEN <<convert_date(Field(row, 2)).text, <<"1">>, <<>>, <<>>,
           Field(row, 4), Field(row, 5), <<>>, <<>>>>
    ELSE IF fmt = "NEW_VISA"
    THEN <<convert_short_date(Field(row, 2)).text, <<"1">>, <<>>, <<>>,
           Field(row, 4), NoEuro(Field(row, 6)), <<>>, <<>>>>
    ELSE <<convert_short_date(Field(row, 1)).text, <<"8">>, <<>>,
           Field(row, 5) \o <<" ">> \o Field(row, 8),
           Field(row, 6), NoEuro(Field(row, 9)), <<>>, <<>>>>

\* The date field of a row cannot be parsed under the format's pattern.
BadDate(fmt, row) ==
    IF fmt \in {"CASH", "GIRO"}
    THEN ~Strptime(Field(row, 1), IF fmt = "CASH" THEN 4 ELSE 2).ok
    ELSE ~Strptime(Field(row, 2), IF fmt = "OLD_VISA" THEN 4 ELSE 2).ok

NoHeaderIn(lines) == \A i \in 1..Len(lines) : ~IsHeaderLine(lines[i])

\* A line that is one whole csv record: not empty, and not ending inside a
\* quoted field.
WholeRecord(line, d) ==
    /\ line # <<>>
    /\ ParseEOL(ParseChars([st |-> "START_RECORD", fields |-> <<>>, cur |-> <<>>],
                           line, d)).st = "START_RECORD"

\* The first line decoded on its own: utf-8-sig, ISO-8859-1 if that fails.
FirstLineAlone ==
    LET first == ReadLine(file)
        u == Utf8Line(DropBOM(<<first>>)[1])
    IN  IF u.ok THEN u.text ELSE first

(***************************************************************************)
(* C1 (as stated): the tag detect_csv_format returns is determined by the  *)
(* first line of the file alone: OLD_VISA if it starts with "Kreditkarte:" *)
(* in quotes, else CASH for "Kontonummer:", else GIRO for "Girokonto",     *)
(* else NEW_VISA for "Karte", else UNKNOWN.                                *)
(***************************************************************************)
C1_FirstLineAlone ==
    Classified =>
        csv_format =
            (IF StartsWith(FirstLineAlone, SigOldVisa) THEN "OLD_VISA"
             ELSE IF StartsWith(FirstLineAlone, SigCash) THEN "CASH"
             ELSE IF StartsWith(FirstLineAlone, SigGiro) THEN "GIRO"
             ELSE IF StartsWith(FirstLineAlone, SigNewVisa) THEN "NEW_VISA"
             ELSE "UNKNOWN")

(***************************************************************************)
(* C2: every record written to the output is the projection of its source  *)
(* row by the rule of the format, the eight fields in the order date,      *)
(* paymode, info, payee, memo, amount, category, tags.                     *)
(***************************************************************************)
C2_Projection ==
    (Known /\ Opened) =>
        LET rows == SourceRows(ExtractedLines, sniffed)
        IN  /\ Len(Written) <= Len(rows)
            /\ \A k \in 1..Len(Written) :
                  /\ Len(Written[k]) = 8
                  /\ Written[k] = Projection(csv_format, rows[k])

C2_Witness ==
    /\ csv_format = "GIRO" /\ Opened /\ Len(Written) = 2
    /\ sniffed.delimiter = ";"

(***************************************************************************)
(* C3: when the input is classified UNKNOWN no converter runs and no       *)
(* output file is created or overwritten, with or without an output path.  *)
(***************************************************************************)
C3_UnknownNoWrite ==
    (Classified /\ csv_format = "UNKNOWN") =>
        /\ pc \in {"main", "exit"}
        /\ fs = InitFs
        /\ output = "" /\ reader = <<>> /\ handles = {}

C3_Witness ==
    /\ pc = "exit" /\ csv_format = "UNKNOWN" /\ outArg = "out.csv"
    /\ stderr /\ fs = InitFs

(***************************************************************************)
(* C4: for lines that hold a header line, find_transaction_lines returns   *)
(* exactly the lines after the first line that contains both "Betrag" and  *)
(* "Wertstellung", in their order: of N preamble lines, the header line    *)
(* and M data lines, the M data lines.                                     *)
(***************************************************************************)
C4_LinesAfterHeader ==
    (fl_out.called /\ ~NoHeaderIn(fl_in)) =>
        LET h == CHOOSE i \in 1..Len(fl_in) :
                    /\ Contains(fl_in[i], Betrag) /\ Contains(fl_in[i], Wertstellung)
                    /\ \A j \in 1..(i - 1) :
                          ~(Contains(fl_in[j], Betrag) /\ Contains(fl_in[j], Wertstellung))
        IN  /\ fl_out.ok
            /\ Len(fl_out.lines) = Len(fl_in) - h
            /\ \A k \in 1..Len(fl_out.lines) : fl_out.lines[k] = fl_in[h + k]

C4_Witness ==
    /\ fl_out.called /\ fl_out.ok /\ Len(fl_in) = 3
    /\ Contains(fl_in[1], Betrag) /\ ~IsHeaderLine(fl_in[1])
    /\ IsHeaderLine(fl_in[2])
    /\ fl_out.lines = <<fl_in[3]>>

(***************************************************************************)
(* C5 (as stated): in a successful conversion the output holds exactly one *)
(* record per extracted data line.                                         *)
(***************************************************************************)
C5_OnePerLine ==
    (pc = "exit" /\ status = 0 /\ Known) => Len(Written) = Len(ExtractedLines)

(***************************************************************************)
(* C5 (amended): in a successful conversion the output holds exactly one   *)
(* record per row the csv reader makes of the extracted data lines, in     *)
(* the order of the rows; when every data line is one whole csv record,    *)
(* that is one record per data line, the k-th from the k-th line.          *)
(***************************************************************************)
C5_OnePerRow ==
    (pc = "exit" /\ status = 0 /\ Known) =>
        LET rows == SourceRows(ExtractedLines, sniffed)
        IN  /\ Len(Written) = Len(rows)
            /\ \A k \in 1..Len(rows) :
                  Written[k] = writerow(ConvertRow(csv_format,
                                   BindRow(FieldNames(csv_format), rows[k])).rec)
            /\ (\A i \in 1..Len(ExtractedLines) : WholeRecord(ExtractedLines[i], sniffed))
                  => /\ Len(Written) = Len(ExtractedLines)
                     /\ \A k \in 1..Len(Written) :
                           rows[k] = ReaderNext(<<ExtractedLines[k]>>, sniffed).row

C5_Witness ==
    /\ pc = "exit" /\ status = 0 /\ Known
    /\ Len(ExtractedLines) = 2 /\ ExtractedLines[1] = <<>>
    /\ Len(Written) = 1

(***************************************************************************)
(* C6: if no line of the input contains both "Betrag" and "Wertstellung",  *)
(* the conversion of a file of a known format ends in a fatal error before *)
(* the output file is opened: nothing is written, the output path is       *)
(* neither created nor truncated.                                          *)
(***************************************************************************)
C6_NoHeaderNoOutput ==
    (Classified /\ Known /\ NoHeaderIn(file)) =>
        /\ pc \notin {"open_out", "rows"}
        /\ fs = InitFs
        /\ "out" \notin handles
        /\ pc = "exit" => (status = 1 /\ err # "")

C6_Witness ==
    /\ pc = "exit" /\ Known /\ NoHeaderIn(file) /\ err = "ValueError"
    /\ outArg = NoArg /\ fs[output] = OldContent

(***************************************************************************)
(* C7: a data row whose date field cannot be parsed under the pattern of   *)
(* its format ends the conversion of the file with an error: no record is  *)
(* written for that row nor for any row after it.                          *)
(***************************************************************************)
C7_BadDateAborts ==
    (Known /\ Opened) =>
        LET rows == SourceRows(ExtractedLines, sniffed)
        IN  \A k \in 1..Len(rows) :
               BadDate(csv_format, rows[k]) =>
                   /\ Len(Written) < k
                   /\ pc = "exit" => (status = 1 /\ err # "")

C7_Witness ==
    /\ pc = "exit" /\ Known /\ Opened /\ status = 1
    /\ Written = <<>>
    /\ LET rows == SourceRows(ExtractedLines, sniffed)
       IN  /\ Len(rows) = 2
           /\ BadDate(csv_format, rows[1])
           /\ ~BadDate(csv_format, rows[2])

(***************************************************************************)
(* C8 (as stated): the exit status is zero exactly when the input was      *)
(* classified as a known format and fully converted, and non-zero in every *)
(* other outcome, UNKNOWN included.                                        *)
(***************************************************************************)
C8_ExitStatus ==
    pc = "exit" => ((status = 0) <=> (Known /\ err = ""))

(***************************************************************************)
(* C9: when classification or conversion returns or raises, every file    *)
(* handle it opened is closed; while the rows are written only the output  *)
(* handle is open.                                                         *)
(***************************************************************************)
C9_HandlesClosed ==
    /\ pc \in {"detect_fallback", "classify", "main", "open_csv", "open_out", "exit"}
          => handles = {}
    /\ pc = "rows" => handles = {"out"}

C9_Witness ==
    /\ pc = "exit" /\ Opened /\ err = "ValueError" /\ Len(Written) = 1
    /\ handles = {}

(***************************************************************************)
(* C10: strip_currency is idempotent, and it removes no digit, ".", ","    *)
(* or "-": those characters of the result are those of the argument.       *)
(***************************************************************************)
KeptChars == Digits \cup {".", ",", "-"}

C10_StripIdempotent ==
    /\ Len(cs_out) >= 1 =>
          SelectSeq(cs_out[1], LAMBDA c : c \in KeptChars)
              = SelectSeq(cs_in, LAMBDA c : c \in KeptChars)
    /\ Len(cs_out) = 2 => cs_out[2] = cs_out[1]

C10_Witness ==
    /\ Len(cs_out) = 2
    /\ cs_in = <<"1", " ", Euro>>
    /\ cs_out[1] = <<"1">>

TypeOK ==
    /\ pc \in {"idle", "detect", "readline_utf8", "detect_fallback", "readline_latin1",
               "classify", "main", "open_csv", "sniff", "open_out", "rows", "exit"}
    /\ handles \subseteq {"in", "out"}
    /\ csv_format \in Formats \cup {"UNKNOWN"}
    /\ status \in {NoStatus, 0, 1}

====
